---- MODULE Spec2Model ----
(***************************************************************************)
(* Model of sinks/dingtalk/dingtalk.go: the DingTalk notification sink of  *)
(* kube-eventer.  A Go string is a sequence of atoms; an atom is either a  *)
(* single character that matters to a parser ("%", "s", ",", "\n") or a    *)
(* run of ordinary characters.  A Go slice is a record [isnil, elems] so   *)
(* that a nil slice and an empty slice stay distinct.                      *)
(***************************************************************************)
EXTENDS Integers, Sequences, FiniteSets, TLC

VARIABLES uri, d, ret, pc, caller, batch, idx, cur, msg, posts, sleeps, calls, logs

vars == <<uri, d, ret, pc, caller, batch, idx, cur, msg, posts, sleeps, calls, logs>>

\* ---------------------------------------------------------------- bounds
MaxBatch == 2
MaxLabels == 2

\* ------------------------------------------------------------- constants
WARNING == 2
NORMAL == 1
StatusOK == 200
DEFAULT_MSG_TYPE == <<"text">>
CONTENT_TYPE_JSON == <<"application/json">>
LABE_TEMPLATE == <<"%", "s", "\n">>
MSG_TEMPLATE ==
  <<"Level:", "%", "s", " ", "\n", "Kind:", "%", "s", " ", "\n",
    "Namespace:", "%", "s", " ", "\n", "Name:", "%", "s", " ", "\n",
    "Reason:", "%", "s", " ", "\n", "Timestamp:", "%", "s", " ", "\n",
    "Message:", "%", "s">>
EventTypeWarning == <<"Warning">>
EventTypeNormal == <<"Normal">>

\* ---------------------------------------------------------------- slices
NilSlice == [isnil |-> TRUE, elems |-> <<>>]
Slice(s) == [isnil |-> FALSE, elems |-> s]
len(sl) == Len(sl.elems)

\* ------------------------------------------------------- library helpers
\* strings.Split(s, sep) for a one-character separator
RECURSIVE Split(_, _)
Split(s, sep) ==
  IF \A i \in 1..Len(s) : s[i] # sep
  THEN <<s>>
  ELSE LET i == CHOOSE k \in 1..Len(s) :
                  s[k] = sep /\ \A j \in 1..(k - 1) : s[j] # sep
       IN <<SubSeq(s, 1, i - 1)>> \o Split(SubSeq(s, i + 1, Len(s)), sep)

\* the "%!(EXTRA string=a, string=b)" tail fmt appends for unused operands
RECURSIVE ExtraArgs(_, _)
ExtraArgs(args, n) ==
  IF n > Len(args) THEN <<>>
  ELSE <<"string=">> \o args[n]
       \o (IF n < Len(args) THEN <<", ">> ELSE <<>>)
       \o ExtraArgs(args, n + 1)

\* fmt.Sprintf over string operands.  Verbs s and v print the operand, %%
\* prints a percent sign, any other verb character is a bad verb, a verb
\* with no operand left prints MISSING and a trailing % prints NOVERB.
RECURSIVE SprintfFrom(_, _, _, _)
SprintfFrom(format, i, args, argNum) ==
  IF i > Len(format)
  THEN IF argNum <= Len(args)
       THEN <<"%!(EXTRA ">> \o ExtraArgs(args, argNum) \o <<")">>
       ELSE <<>>
  ELSE IF format[i] # "%"
  THEN <<format[i]>> \o SprintfFrom(format, i + 1, args, argNum)
  ELSE IF i = Len(format)
  THEN <<"%!(NOVERB)">>
  ELSE LET verb == format[i + 1] IN
       IF verb = "%"
       THEN <<"%">> \o SprintfFrom(format, i + 2, args, argNum)
       ELSE IF argNum > Len(args)
       THEN <<"%!", verb, "(MISSING)">> \o SprintfFrom(format, i + 2, args, argNum)
       ELSE IF verb \in {"s", "v"}
       THEN args[argNum] \o SprintfFrom(format, i + 2, args, argNum + 1)
       ELSE <<"%!", verb, "(string=">> \o args[argNum] \o <<")">>
            \o SprintfFrom(format, i + 2, args, argNum + 1)

Sprintf(format, args) == SprintfFrom(format, 1, args, 1)

\* metav1.Time.String() of the event's LastTimestamp
TimeString(t) ==
  IF t = 0 THEN <<"0001-01-01 00:00:00 +0000 UTC">>
  ELSE <<"2019-06-01 12:00:00 +0000 UTC">>

\* encoding/json string encoding: quotes around, newline escaped
RECURSIVE JsonEscape(_)
JsonEscape(s) ==
  IF s = <<>> THEN <<>>
  ELSE (IF Head(s) = "\n" THEN <<"\\n">> ELSE <<Head(s)>>) \o JsonEscape(Tail(s))

JsonString(s) == <<"\"">> \o JsonEscape(s) \o <<"\"">>

\* json.Marshal of a DingTalkMsg; a struct of strings never fails to marshal
Marshal(m) ==
  [err |-> FALSE,
   bytes |-> <<"{\"msgtype\":">> \o JsonString(m.MsgType)
             \o <<",\"text\":{\"content\":">> \o JsonString(m.Text.Content)
             \o <<"}}">>]

\* ------------------------------------------------------------- the sink
getLevel(level) ==
  IF level = EventTypeWarning THEN 0 + 2
  ELSE IF level = EventTypeNormal THEN 0 + 1
  ELSE 0

isEventLevelDangerous_strict(sink, level) == getLevel(level) > sink.Level

isEventLevelDangerous(sink, level) == getLevel(level) >= sink.Level

\* the namespace and kind filters at the head of Ding: TRUE when Ding
\* returns before building a message
DingSkips_withLevel(sink, event) ==
  \/ /\ ~sink.Namespaces.isnil
     /\ \A k \in 1..len(sink.Namespaces) : sink.Namespaces.elems[k] # event.Namespace
  \/ /\ ~sink.Kinds.isnil
     /\ \A k \in 1..len(sink.Kinds) : sink.Kinds.elems[k] # event.Kind
  \/ getLevel(event.Type) < sink.Level

DingSkips(sink, event) ==
  \/ /\ ~sink.Namespaces.isnil
     /\ \A k \in 1..len(sink.Namespaces) : sink.Namespaces.elems[k] # event.Namespace
  \/ /\ ~sink.Kinds.isnil
     /\ \A k \in 1..len(sink.Kinds) : sink.Kinds.elems[k] # event.Kind

\* the label loop of createMsgFromEvent: each label is formatted with
\* LABE_TEMPLATE and put in front of the template built so far
RECURSIVE prependLabels(_, _, _)
prependLabels(labels, k, template) ==
  IF k > len(labels) THEN template
  ELSE prependLabels(labels, k + 1,
                     Sprintf(LABE_TEMPLATE, <<labels.elems[k]>>) \o template)

createMsgFromEvent(labels, event) ==
  LET template == IF len(labels) > 0
                  THEN prependLabels(labels, 1, MSG_TEMPLATE)
                  ELSE MSG_TEMPLATE
  IN [isnil |-> FALSE,
      MsgType |-> DEFAULT_MSG_TYPE,
      Text |-> [Content |->
        Sprintf(template, <<event.Type, event.Kind, event.Namespace, event.Name,
                            event.Reason, TimeString(event.LastTimestamp),
                            event.Message>>)]]

\* getValues: o[0] is read whenever o is empty or its first value is not ""
getValues(o) ==
  IF Len(o) >= 1 /\ Len(o[1]) = 0 THEN [panic |-> FALSE, val |-> NilSlice]
  ELSE IF Len(o) = 0 THEN [panic |-> TRUE, val |-> NilSlice]
  ELSE [panic |-> FALSE, val |-> Slice(Split(o[1], ","))]

tokenValue(opts) == opts.access_token[1]

ZeroSink ==
  [Endpoint |-> <<>>, Namespaces |-> NilSlice, Kinds |-> NilSlice,
   Token |-> <<>>, Level |-> 0, Labels |-> NilSlice]

\* NewDingTalkSink after the token check: level, labels, namespaces, kinds
configureSink(d2, opts) ==
  LET d3 == IF Len(opts.level) >= 1
            THEN [d2 EXCEPT !.Level = getLevel(opts.level[1])] ELSE d2
      d4 == IF Len(opts.label) >= 1
            THEN [d3 EXCEPT !.Labels = Slice(opts.label)] ELSE d3
      ns == getValues(opts.namespaces)
      d5 == [d4 EXCEPT !.Namespaces = ns.val]
      ks == getValues(opts.kinds)
      d6 == [d5 EXCEPT !.Kinds = ks.val]
  IN IF ns.panic THEN [d |-> d4, outcome |-> "panic"]
     ELSE IF ks.panic THEN [d |-> d5, outcome |-> "panic"]
     ELSE [d |-> d6, outcome |-> "ok"]

NewDingTalkSink_optionalToken(u) ==
  LET d0 == [ZeroSink EXCEPT !.Level = WARNING]
      d1 == IF Len(u.Host) > 0 THEN [d0 EXCEPT !.Endpoint = u.Host \o u.Path] ELSE d0
      opts == u.Query
  IN IF Len(opts.access_token) >= 1
     THEN configureSink([d1 EXCEPT !.Token = tokenValue(opts)], opts)
     ELSE configureSink(d1, opts)

\* NewDingTalkSink: the struct as built when the function ends, and how it
\* ends: "ok" (d, nil), "err" (nil, error) or "panic"
NewDingTalkSink(u) ==
  LET d0 == [ZeroSink EXCEPT !.Level = WARNING]
      d1 == IF Len(u.Host) > 0 THEN [d0 EXCEPT !.Endpoint = u.Host \o u.Path] ELSE d0
      opts == u.Query
  IN IF Len(opts.access_token) >= 1
     THEN configureSink([d1 EXCEPT !.Token = tokenValue(opts)], opts)
     ELSE [d |-> d1, outcome |-> "err"]

PostURL(sink) == <<"https://">> \o sink.Endpoint \o <<"?access_token=">> \o sink.Token

\* ---------------------------------------------------------------- inputs
Hosts == {<<>>, <<"oapi.dingtalk.com">>}
Path == <<"/robot/send">>
TokenParams == {<<>>, << <<"tok1">>, <<"tok2">> >>}
LevelParams == {<<>>, << <<"Warning">> >>, << <<"Normal">> >>, << <<"Critical">> >>}
LabelParams == {<<>>, << <<"cluster-1">>, <<"env-prod">> >>}
NamespaceParams == {<<>>, << <<>> >>, << <<"ns-a">> >>, << <<"ns-a", ",", "ns-c">> >>}
KindParams == {<<>>, << <<>> >>, << <<"Pod">> >>}

URIs ==
  {[Host |-> h, Path |-> Path,
    Query |-> [access_token |-> t, level |-> l, label |-> lb,
               namespaces |-> ns, kinds |-> ks]] :
     h \in Hosts, t \in TokenParams, l \in LevelParams, lb \in LabelParams,
     ns \in NamespaceParams, ks \in KindParams}

EventTypes == {EventTypeWarning, EventTypeNormal, <<"Other">>}
\* the involved objects: a Pod in ns-a and a Node in ns-b.  Each filter
\* alone rejects the Node under a sink that configures only that filter.
EventObjects ==
  {[Kind |-> <<"Pod">>, Namespace |-> <<"ns-a">>],
   [Kind |-> <<"Node">>, Namespace |-> <<"ns-b">>]}

Events ==
  {[Type |-> t, Kind |-> o.Kind, Namespace |-> o.Namespace, Name |-> <<"web-0">>,
    Reason |-> <<"BackOff">>, LastTimestamp |-> 1,
    Message |-> <<"Back-off restarting failed container">>] :
     t \in EventTypes, o \in EventObjects}

Batches == UNION {[1..n -> Events] : n \in 0..MaxBatch}

\* what http.Post can hand back: a response and no error (200 or not), an
\* error and no response, or, when the redirect limit is hit, both
PostOutcomes ==
  {[err |-> FALSE, resp |-> TRUE, code |-> 200],
   [err |-> FALSE, resp |-> TRUE, code |-> 500],
   [err |-> TRUE, resp |-> FALSE, code |-> 0],
   [err |-> TRUE, resp |-> TRUE, code |-> 302]}

NoEvent ==
  [Type |-> <<>>, Kind |-> <<>>, Namespace |-> <<>>, Name |-> <<>>,
   Reason |-> <<>>, LastTimestamp |-> 0, Message |-> <<>>]
NoMsg == [isnil |-> TRUE, MsgType |-> <<>>, Text |-> [Content |-> <<>>]]
NoOutcome == [err |-> FALSE, resp |-> FALSE, code |-> 0]

\* ----------------------------------------------------------------- state
Init ==
  /\ uri \in URIs
  /\ d = ZeroSink
  /\ ret = "none"
  /\ pc = "start"
  /\ caller = "none"
  /\ batch = <<>>
  /\ idx = 0
  /\ cur = NoEvent
  /\ msg = NoMsg
  /\ posts = <<>>
  /\ sleeps = <<>>
  /\ calls = <<>>
  /\ logs = <<>>

\* NewDingTalkSink(uri)
Construct ==
  /\ pc = "start"
  /\ LET r == NewDingTalkSink(uri) IN
       /\ d' = r.d
       /\ ret' = CASE r.outcome = "ok" -> "sink"
                   [] r.outcome = "err" -> "error"
                   [] OTHER -> "none"
       /\ pc' = CASE r.outcome = "ok" -> "active"
                  [] r.outcome = "err" -> "failed"
                  [] OTHER -> "panic"
  /\ UNCHANGED <<uri, caller, batch, idx, cur, msg, posts, sleeps, calls, logs>>

\* ExportEvents is entered with a batch
ExportEvents(b) ==
  /\ pc = "active"
  /\ batch' = b
  /\ idx' = 0
  /\ caller' = "ExportEvents"
  /\ pc' = "loop"
  /\ UNCHANGED <<uri, d, ret, cur, msg, posts, sleeps, calls, logs>>

\* the range loop is exhausted: ExportEvents returns
LoopExit ==
  /\ pc = "loop"
  /\ idx = Len(batch)
  /\ pc' = "returned"
  /\ UNCHANGED <<uri, d, ret, caller, batch, idx, cur, msg, posts, sleeps, calls, logs>>

\* next event, isEventLevelDangerous is true: Ding is called
GatePass ==
  /\ pc = "loop"
  /\ idx < Len(batch)
  /\ isEventLevelDangerous(d, batch[idx + 1].Type)
  /\ cur' = batch[idx + 1]
  /\ calls' = Append(calls, idx + 1)
  /\ pc' = "ding"
  /\ UNCHANGED <<uri, d, ret, caller, batch, idx, msg, posts, sleeps, logs>>

\* next event, isEventLevelDangerous is false: on to the next event
GateSkip ==
  /\ pc = "loop"
  /\ idx < Len(batch)
  /\ ~isEventLevelDangerous(d, batch[idx + 1].Type)
  /\ idx' = idx + 1
  /\ UNCHANGED <<uri, d, ret, pc, caller, batch, cur, msg, posts, sleeps, calls, logs>>

\* the exported method Ding called on an event by another caller
DingDirect(e) ==
  /\ pc = "active"
  /\ caller' = "Ding"
  /\ cur' = e
  /\ pc' = "ding"
  /\ UNCHANGED <<uri, d, ret, batch, idx, msg, posts, sleeps, calls, logs>>

AfterDing == IF caller = "ExportEvents" THEN "sleep" ELSE "returned"

\* Ding up to the filters: the event is dropped and Ding returns
DingDrop ==
  /\ pc = "ding"
  /\ DingSkips(d, cur)
  /\ pc' = AfterDing
  /\ UNCHANGED <<uri, d, ret, caller, batch, idx, cur, msg, posts, sleeps, calls, logs>>

\* Ding past the filters: message built and marshalled, http.Post issued
DingPost ==
  /\ pc = "ding"
  /\ ~DingSkips(d, cur)
  /\ LET m == createMsgFromEvent(d.Labels, cur)
         j == Marshal(m)
     IN /\ msg' = m
        /\ IF m.isnil \/ j.err
           THEN /\ logs' = Append(logs, "warning")
                /\ pc' = AfterDing
                /\ posts' = posts
           ELSE /\ logs' = logs
                /\ pc' = "post"
                /\ posts' = Append(posts,
                      [i |-> IF caller = "ExportEvents" THEN idx + 1 ELSE 0,
                       ev |-> cur, url |-> PostURL(d),
                       contentType |-> CONTENT_TYPE_JSON, body |-> j.bytes,
                       done |-> FALSE, out |-> NoOutcome])
  /\ UNCHANGED <<uri, d, ret, caller, batch, idx, cur, sleeps, calls>>

\* http.Post comes back.  In the failure branch the log call's operands
\* err.Error() and resp.StatusCode are evaluated first: a nil err or a nil
\* resp panics before anything is logged.
PostReturn(o) ==
  /\ pc = "post"
  /\ posts' = [posts EXCEPT ![Len(posts)].done = TRUE, ![Len(posts)].out = o]
  /\ IF o.err \/ o.code # StatusOK
     THEN IF ~o.err \/ ~o.resp
          THEN /\ pc' = "panic"
               /\ logs' = logs
          ELSE /\ pc' = AfterDing
               /\ logs' = Append(logs, "error")
     ELSE /\ pc' = AfterDing
          /\ logs' = logs
  /\ UNCHANGED <<uri, d, ret, caller, batch, idx, cur, msg, sleeps, calls>>

\* time.Sleep(50ms) after Ding has returned, then the next iteration
Sleep ==
  /\ pc = "sleep"
  /\ sleeps' = Append(sleeps, idx + 1)
  /\ idx' = idx + 1
  /\ pc' = "loop"
  /\ UNCHANGED <<uri, d, ret, caller, batch, cur, msg, posts, calls, logs>>

Next ==
  \/ Construct
  \/ \E b \in Batches : ExportEvents(b)
  \/ LoopExit
  \/ GatePass
  \/ GateSkip
  \/ \E e \in Events : DingDirect(e)
  \/ DingDrop
  \/ DingPost
  \/ \E o \in PostOutcomes : PostReturn(o)
  \/ Sleep

Spec == Init /\ [][Next]_vars

TypeOK ==
  /\ pc \in {"start", "active", "failed", "panic", "loop", "ding", "post",
             "sleep", "returned", "render", "rendered"}
  /\ idx \in 0..Len(batch)

\* --------------------------------------------- createMsgFromEvent alone
RenderLabelValues == {<<"cluster-1">>, <<"env-prod">>, <<"load>90", "%">>}
RenderLabelLists == UNION {[1..n -> RenderLabelValues] : n \in 0..MaxLabels}
RenderLabels == {NilSlice} \cup {Slice(l) : l \in RenderLabelLists}
RenderEvents == {[e EXCEPT !.LastTimestamp = t] : e \in Events, t \in {0, 1}}
RenderURI ==
  [Host |-> <<"oapi.dingtalk.com">>, Path |-> Path,
   Query |-> [access_token |-> << <<"tok1">> >>, level |-> <<>>, label |-> <<>>,
              namespaces |-> << <<>> >>, kinds |-> << <<>> >>]]

InitRender ==
  /\ uri = RenderURI
  /\ \E l \in RenderLabels : d = [NewDingTalkSink(RenderURI).d EXCEPT !.Labels = l]
  /\ ret = "sink"
  /\ pc = "render"
  /\ caller = "createMsgFromEvent"
  /\ batch = <<>>
  /\ idx = 0
  /\ cur \in RenderEvents
  /\ msg = NoMsg
  /\ posts = <<>>
  /\ sleeps = <<>>
  /\ calls = <<>>
  /\ logs = <<>>

\* createMsgFromEvent(d.Labels, cur)
Render ==
  /\ pc = "render"
  /\ msg' = createMsgFromEvent(d.Labels, cur)
  /\ pc' = "rendered"
  /\ UNCHANGED <<uri, d, ret, caller, batch, idx, cur, posts, sleeps, calls, logs>>

NextRender == Render

SpecRender == InitRender /\ [][NextRender]_vars

\* ------------------------------------------------ vocabulary of the claims
InExport == caller = "ExportEvents"
Finished == pc \in {"returned", "panic"}
Indices(n) == [i \in 1..n |-> i]

NamespaceAllowed(sink, e) ==
  sink.Namespaces.isnil \/ \E k \in 1..len(sink.Namespaces) : sink.Namespaces.elems[k] = e.Namespace
KindAllowed(sink, e) ==
  sink.Kinds.isnil \/ \E k \in 1..len(sink.Kinds) : sink.Kinds.elems[k] = e.Kind
Score(e) ==
  CASE e.Type = <<"Warning">> -> 2 [] e.Type = <<"Normal">> -> 1 [] OTHER -> 0
SevereEnough(sink, e) == Score(e) >= sink.Level
PassesAll(sink, e) == NamespaceAllowed(sink, e) /\ KindAllowed(sink, e) /\ SevereEnough(sink, e)

PostedIndex(i) == \E k \in 1..Len(posts) : posts[k].i = i
PostIndices == [k \in 1..Len(posts) |-> posts[k].i]
PassingIndices == SelectSeq(Indices(Len(batch)), LAMBDA i : PassesAll(d, batch[i]))
SevereIndices == SelectSeq(Indices(Len(batch)), LAMBDA i : SevereEnough(d, batch[i]))
Non200(o) == ~o.err /\ o.resp /\ o.code # 200
NoResponse(o) == o.err /\ ~o.resp
InFlight == {k \in 1..Len(posts) : ~posts[k].done}

\* ----------------------------------------------------------------- claims

\* C1: during ExportEvents a POST is issued for an event of the batch if and
\* only if the event passes the namespace, kind and severity filters: no
\* POST for an event that fails one, and by the end of the call a POST for
\* every event that passes all three.
C1_PostIffAllFilters ==
  InExport =>
    /\ \A k \in 1..Len(posts) : PassesAll(d, batch[posts[k].i])
    /\ Finished => \A i \in 1..Len(batch) : PassesAll(d, batch[i]) => PostedIndex(i)

\* C1, on the calls that do return: the biconditional holds at return.
C1_WhenReturned ==
  (InExport /\ pc = "returned") =>
    \A i \in 1..Len(batch) : PassesAll(d, batch[i]) <=> PostedIndex(i)

\* C2: a POST answered with a non-200 status and no transport error is
\* logged, Ding returns normally (no crash), and the event gets no second
\* POST.
C2_Non200ReturnsNormally ==
  \A k \in 1..Len(posts) :
    (posts[k].done /\ Non200(posts[k].out)) =>
      /\ pc # "panic"
      /\ logs # <<>>
      /\ \A j \in 1..Len(posts) : posts[j].i = posts[k].i => j = k

\* C3: a failed delivery (transport error without a response, or a non-OK
\* status) does not end the batch: ExportEvents does not crash, and when it
\* has returned every later event that passes the filters has had its POST.
C3_FailureNonFatal ==
  InExport =>
    \A k \in 1..Len(posts) :
      (posts[k].done /\ (NoResponse(posts[k].out) \/ Non200(posts[k].out))) =>
        /\ pc # "panic"
        /\ pc = "returned" =>
             \A i \in (posts[k].i + 1)..Len(batch) : PassesAll(d, batch[i]) => PostedIndex(i)

\* C4: a URI that carries access_token always yields a sink and no error,
\* without a crash, whatever else it carries; namespaces (kinds) absent or
\* empty gives Namespaces (Kinds) = nil.
C4_TokenAloneSuffices ==
  (pc # "start" /\ Len(uri.Query.access_token) >= 1) =>
    /\ pc # "panic"
    /\ ret = "sink"
    /\ (Len(uri.Query.namespaces) = 0 \/ uri.Query.namespaces[1] = <<>>) => d.Namespaces.isnil
    /\ (Len(uri.Query.kinds) = 0 \/ uri.Query.kinds[1] = <<>>) => d.Kinds.isnil

\* C4, on the URIs that do carry namespaces and kinds: construction
\* succeeds and an empty value gives a nil filter that drops nothing.
C4_WhenBothParamsPresent ==
  (pc # "start" /\ Len(uri.Query.access_token) >= 1
     /\ Len(uri.Query.namespaces) >= 1 /\ Len(uri.Query.kinds) >= 1) =>
    /\ ret = "sink"
    /\ uri.Query.namespaces[1] = <<>> => d.Namespaces.isnil
    /\ uri.Query.kinds[1] = <<>> => d.Kinds.isnil

\* C5: without access_token NewDingTalkSink returns an error and no sink,
\* whatever the other parameters, and nothing is ever exported; with
\* access_token the first value is the Token.
C5_TokenRequired ==
  pc # "start" =>
    /\ Len(uri.Query.access_token) = 0 =>
         (pc = "failed" /\ ret = "error" /\ caller = "none" /\ posts = <<>> /\ calls = <<>>)
    /\ Len(uri.Query.access_token) >= 1 =>
         (pc # "failed" /\ ret # "error" /\ d.Token = uri.Query.access_token[1])

C5_Witness ==
  /\ pc = "failed" /\ ret = "error"
  /\ Len(uri.Query.access_token) = 0
  /\ Len(uri.Query.level) >= 1 /\ Len(uri.Query.label) >= 1
  /\ Len(uri.Query.namespaces) >= 1 /\ Len(uri.Query.kinds) >= 1

\* C6: Level is 2 with no level parameter, 2 for level=Warning, 1 for
\* level=Normal; the gate of ExportEvents then passes a Warning event in
\* all three cases, a Normal event only under level=Normal, and an event
\* of any other type in none.
LevelParam == IF Len(uri.Query.level) = 0 THEN <<"(absent)">> ELSE uri.Query.level[1]
GateShouldPass(e) ==
  CASE e.Type = <<"Warning">> -> TRUE
    [] e.Type = <<"Normal">> -> LevelParam = <<"Normal">>
    [] OTHER -> FALSE
GateCalled(i) == \E k \in 1..Len(calls) : calls[k] = i

C6_LevelThreshold ==
  (ret = "sink" /\ LevelParam \in {<<"(absent)">>, <<"Warning">>, <<"Normal">>}) =>
    /\ d.Level = (IF LevelParam = <<"Normal">> THEN 1 ELSE 2)
    /\ InExport =>
         \A i \in 1..Len(batch) :
           /\ GateCalled(i) => GateShouldPass(batch[i])
           /\ (i <= idx /\ ~GateCalled(i)) => ~GateShouldPass(batch[i])

C6_Witness ==
  /\ ret = "sink" /\ InExport /\ pc = "returned"
  /\ LevelParam = <<"Normal">>
  /\ Len(batch) = 2
  /\ batch[1].Type = <<"Normal">> /\ GateCalled(1)
  /\ batch[2].Type = <<"Other">> /\ ~GateCalled(2)

\* C7: the text of createMsgFromEvent is the labels in reverse list order,
\* one per line, followed by the seven-field template filled from the
\* event; the message type is "text" and the result is not nil.
RECURSIVE ReversedLabelLines(_, _)
ReversedLabelLines(labels, n) ==
  IF n = 0 THEN <<>>
  ELSE labels.elems[n] \o <<"\n">> \o ReversedLabelLines(labels, n - 1)
FilledTemplate(e) ==
  <<"Level:">> \o e.Type \o <<" ", "\n", "Kind:">> \o e.Kind
  \o <<" ", "\n", "Namespace:">> \o e.Namespace \o <<" ", "\n", "Name:">> \o e.Name
  \o <<" ", "\n", "Reason:">> \o e.Reason
  \o <<" ", "\n", "Timestamp:">> \o TimeString(e.LastTimestamp)
  \o <<" ", "\n", "Message:">> \o e.Message

C7_LabelsReversedThenTemplate ==
  pc = "rendered" =>
    /\ ~msg.isnil
    /\ msg.MsgType = <<"text">>
    /\ msg.Text.Content = ReversedLabelLines(d.Labels, len(d.Labels)) \o FilledTemplate(cur)

\* C7, for labels without a percent sign: the claimed text is produced.
C7_WhenLabelsHaveNoVerb ==
  (pc = "rendered"
     /\ \A k \in 1..len(d.Labels) : \A j \in 1..Len(d.Labels.elems[k]) : d.Labels.elems[k][j] # "%") =>
    /\ ~msg.isnil
    /\ msg.MsgType = <<"text">>
    /\ msg.Text.Content = ReversedLabelLines(d.Labels, len(d.Labels)) \o FilledTemplate(cur)

\* C8: Ding called on an event whose severity is below Level drops it and
\* issues no POST.
C8_DingChecksSeverity ==
  (caller = "Ding" /\ Score(cur) < d.Level) => posts = <<>>

\* C8 amended: Ding applies the namespace and kind filters only.  Called on
\* an event, it issues a POST exactly when both pass, whatever the event's
\* severity; the severity threshold is applied by the gate of ExportEvents
\* alone.
C8_DingFiltersNamespaceAndKindOnly ==
  /\ (caller = "Ding" /\ pc # "ding") =>
       (Len(posts) = 1 <=> (NamespaceAllowed(d, cur) /\ KindAllowed(d, cur)))
  /\ pc = "ding" => Cardinality(InFlight) = 0
  /\ InExport => \A k \in 1..Len(calls) : SevereEnough(d, batch[calls[k]])

C8_Witness ==
  /\ caller = "Ding" /\ pc = "returned"
  /\ Score(cur) < d.Level
  /\ ~d.Namespaces.isnil /\ ~d.Kinds.isnil
  /\ Len(posts) = 1 /\ posts[1].ev = cur /\ posts[1].done

\* C9: the throttle delay is taken after an event exactly when its severity
\* score is >= Level, so that at the end of ExportEvents the delays are the
\* events of the batch with score >= Level, one each.
C9_DelayPerSevereEvent ==
  InExport =>
    /\ \A k \in 1..Len(sleeps) : SevereEnough(d, batch[sleeps[k]])
    /\ Finished => sleeps = SevereIndices

\* C9, on the calls that do return.
C9_WhenReturned ==
  (InExport /\ pc = "returned") => sleeps = SevereIndices

\* C10: the POST attempts of one ExportEvents call are the events of the
\* batch that pass all three filters, in batch order, one attempt each, and
\* an attempt starts only after the one before it has completed.
C10_AttemptsAreTheFilteredBatch ==
  InExport =>
    /\ Cardinality(InFlight) <= 1
    /\ \A k \in InFlight : k = Len(posts)
    /\ \A k \in 1..Len(posts) : posts[k].ev = batch[posts[k].i]
    /\ Finished => PostIndices = PassingIndices

\* C10, on the calls that do return.
C10_WhenReturned ==
  InExport =>
    /\ Cardinality(InFlight) <= 1
    /\ \A k \in InFlight : k = Len(posts)
    /\ \A k \in 1..Len(posts) : posts[k].ev = batch[posts[k].i]
    /\ pc = "returned" => PostIndices = PassingIndices

====
